---- MODULE Spec2Model ----
(***************************************************************************)
(* The request pipeline of the generated Testing API client                *)
(* (gen/testing1/src/api.rs): one call builder is configured with          *)
(* param(), add_scope(), delegate() and its optional setter, and then      *)
(* consumed by doit().  doit() is modelled with one step per suspension    *)
(* point (token acquisition, request transmission, body read) plus the     *)
(* blocking sleep between retries.  The token provider, the transport and  *)
(* a caller-supplied delegate are the environment: their answers are       *)
(* chosen nondeterministically.                                            *)
(***************************************************************************)
EXTENDS Integers, Sequences, FiniteSets, TLC

VARIABLES
    _user_agent,        \* Testing::_user_agent
    _base_url,          \* Testing::_base_url
    _root_url,          \* Testing::_root_url
    hub_calls,          \* the calls of the hub's setters so far, with what they returned
    deserialized,       \* the request value read back from the serialized bytes
    call,               \* which of the five call builders this is
    _request,           \* the request value of getApkDetails and create
    _delegate,          \* Option<&mut dyn Delegate>
    _additional_params, \* HashMap<String, String>
    _scopes,            \* BTreeMap<String, ()>: the set of its keys
    _request_id,        \* Option<String> of ProjectTestMatriceCreateCall
    _project_id,        \* Option<String> of TestEnvironmentCatalogGetCall
    added,              \* the scopes add_scope was called with so far
    last_scope_none,    \* whether the latest add_scope call was add_scope(None)
    pc,                 \* position of doit()
    url,                \* doit: url, once built
    request_value_reader, \* doit: the cursor over the serialized request value
    token_request,      \* the scopes hub.auth.token was last asked for
    token,              \* the token of the current loop iteration
    res,                \* the response of the current loop iteration
    res_body_string,    \* its body, once buffered
    sent,               \* the request handed to the transport in this iteration
    requests,           \* every request handed to the transport by this invocation
    sleeping,           \* duration of the sleep in progress
    hooks,              \* delegate calls of the current iteration: hook, argument, answer
    trace,              \* the invocation so far: requests, their answers, delegate calls
    result,             \* what doit() returned
    current,            \* which invocation the scheduler thread is running
    parked,             \* the other invocation of the thread, suspended or not started
    script              \* the answers of a deterministic token provider, transport
                        \* and delegate, attempt by attempt

vars == <<_user_agent, _base_url, _root_url, hub_calls, deserialized, current, parked, script,
          call, _request, _delegate, _additional_params, _scopes, _request_id, _project_id,
          added, last_scope_none,
          pc, url, request_value_reader, token_request, token, res, res_body_string,
          sent, requests, sleeping, hooks, trace, result>>

hub == <<_user_agent, _base_url, _root_url>>

scheduler == <<current, parked, script>>

builder == <<call, _request, _delegate, _additional_params, _scopes, _request_id,
             _project_id, added, last_scope_none>>

(***************************************************************************)
(* Bounds of the model                                                     *)
(***************************************************************************)
\* retries one invocation may be granted by its delegate
MaxRetries == 2
\* calls of the hub's setters before a call builder borrows the hub
MaxHubCalls == 3
\* additional parameters set through param()
MaxParams == 1

(***************************************************************************)
(* Values                                                                  *)
(***************************************************************************)
None == [some |-> FALSE]
Some(v) == [some |-> TRUE, v |-> v]

Abort == [retry |-> "Abort", d |-> 0]
After(d) == [retry |-> "After", d |-> d]

Calls == {"getApkDetails", "cancel", "create", "get", "catalogGet"}

CloudPlatform == "https://www.googleapis.com/auth/cloud-platform"
CloudPlatformReadOnly == "https://www.googleapis.com/auth/cloud-platform.read-only"
ScopeNames == {CloudPlatform, CloudPlatformReadOnly}

ParamNames == {"alt", "projectId", "testMatrixId", "requestId", "environmentType", "fields"}
ParamValues == {"x"}

AuthErrors == {"access_denied", "invalid_grant"}
TransportErrors == {"connection refused", "timed out"}
Durations == {1, 2}
Statuses == {199, 200, 299, 300, 404}
Bodies == {"", "oops", "7", "{}"}

NoToken == [from |-> "none", n |-> 0]
ProviderToken(n) == [from |-> "provider", n |-> n]
SubstituteToken == [from |-> "delegate", n |-> 0]

Unread == "<unread>"
NoRes == [status |-> 0, body |-> ""]
NoRequest == [method |-> "", uri |-> "", user_agent |-> "", bearer |-> NoToken,
              content_type |-> None, content_length |-> None, body |-> ""]
NoUrl == [location |-> "", query |-> <<>>]
NoReader == [buf |-> "", pos |-> 0]
NoTokenRequest == [made |-> FALSE, scopes |-> {}]
NoResult == [kind |-> "none", payload |-> ""]
NoInvocation == [pc |-> "none"]
NoCall == "none"
NotDeserialized == [ok |-> FALSE, v |-> <<>>]
NoScript == <<>>

\* Testing::new
DefaultUserAgent == "google-api-rust-client/4.0.1"
DefaultBaseUrl == "https://testing.googleapis.com/"
DefaultRootUrl == "https://testing.googleapis.com/"

\* the arguments the call builders are constructed with
project_id_arg == "my-project"
test_matrix_id_arg == "matrix-1"
environment_type_arg == "ANDROID"

\* a request value: its members under their JSON names, in key order
FileReference == << <<"gcsPath", Some("gs://bucket/app.apk")>> >>
TestMatrix == << <<"clientInfo", None>>, <<"failFast", None>>,
                <<"invalidMatrixDetails", None>>, <<"projectId", Some("my-project")>>,
                <<"state", None>>, <<"testMatrixId", None>> >>
NoRequestValue == <<>>
RequestValue(c) ==
    CASE c = "getApkDetails" -> FileReference
      [] c = "create" -> TestMatrix
      [] OTHER -> NoRequestValue

Ok(v) == [ok |-> TRUE, v |-> v]
Err(e) == [ok |-> FALSE, v |-> e]

Ev(e, a) == [e |-> e, a |-> a]
\* how the trace records a delegate's retry answer
Granted(answer) == IF answer.retry = "After" THEN 1 ELSE 0
Hook(h, arg, ret) == [hook |-> h, arg |-> arg, ret |-> ret]

\* the status class the service answered with, as the trace records it
Is2xx(status) == status \in 200..299

Count(e) == Cardinality({i \in DOMAIN trace : trace[i].e = e})

(***************************************************************************)
(* The builder                                                             *)
(***************************************************************************)
Init ==
    /\ _user_agent = DefaultUserAgent
    /\ _base_url = DefaultBaseUrl
    /\ _root_url = DefaultRootUrl
    /\ hub_calls = <<>>
    /\ deserialized = NotDeserialized
    /\ call \in Calls
    /\ _request = RequestValue(call)
    /\ _delegate = None
    /\ _additional_params = [n \in {} |-> "x"]
    /\ _scopes = {}
    /\ _request_id = None
    /\ _project_id = None
    /\ added = {}
    /\ last_scope_none = FALSE
    /\ pc = "build"
    /\ url = NoUrl
    /\ request_value_reader = NoReader
    /\ token_request = NoTokenRequest
    /\ token = NoToken
    /\ res = NoRes
    /\ res_body_string = ""
    /\ sent = NoRequest
    /\ requests = <<>>
    /\ sleeping = 0
    /\ hooks = <<>>
    /\ trace = <<>>
    /\ result = NoResult
    /\ current = 1
    /\ parked = NoInvocation
    /\ script = NoScript

pipeline == <<pc, url, request_value_reader, token_request, token, res, res_body_string,
              sent, requests, sleeping, hooks, trace, result>>

\* param(name, value): HashMap::insert
param(name, value) ==
    /\ pc = "build"
    /\ Cardinality(DOMAIN _additional_params \cup {name}) <= MaxParams
    /\ _additional_params' = [n \in DOMAIN _additional_params \cup {name} |->
                                IF n = name THEN value ELSE _additional_params[n]]
    /\ UNCHANGED <<hub, hub_calls, deserialized, scheduler,
                   call, _request, _delegate, _scopes, _request_id, _project_id,
                   added, last_scope_none, pipeline>>

\* delegate(new_value)
delegate ==
    /\ pc = "build"
    /\ _delegate' = Some("custom")
    /\ UNCHANGED <<hub, hub_calls, deserialized, scheduler,
                   call, _request, _additional_params, _scopes, _request_id,
                   _project_id, added, last_scope_none, pipeline>>

\* the scope set after add_scope(scope), scope an Option
ScopesAfterAdd(scopes, scope) ==
    IF scope.some THEN scopes \cup {scope.v} ELSE scopes

add_scope(scope) ==
    /\ pc = "build"
    /\ _scopes' = ScopesAfterAdd(_scopes, scope)
    /\ added' = (IF scope.some THEN added \cup {scope.v} ELSE added)
    /\ last_scope_none' = ~scope.some
    /\ UNCHANGED <<hub, hub_calls, deserialized, scheduler,
                   call, _request, _delegate, _additional_params, _request_id,
                   _project_id, pipeline>>

\* ProjectTestMatriceCreateCall::request_id
request_id(new_value) ==
    /\ pc = "build"
    /\ call = "create"
    /\ _request_id' = Some(new_value)
    /\ UNCHANGED <<hub, hub_calls, deserialized, scheduler,
                   call, _request, _delegate, _additional_params, _scopes,
                   _project_id, added, last_scope_none, pipeline>>

\* TestEnvironmentCatalogGetCall::project_id
project_id(new_value) ==
    /\ pc = "build"
    /\ call = "catalogGet"
    /\ _project_id' = Some(new_value)
    /\ UNCHANGED <<hub, hub_calls, deserialized, scheduler,
                   call, _request, _delegate, _additional_params, _scopes,
                   _request_id, added, last_scope_none, pipeline>>

(***************************************************************************)
(* doit(): the parts that are pure functions of the builder                *)
(***************************************************************************)
\* client::MethodInfo passed to begin
MethodInfo_allPost(c) ==
    [id |-> CASE c = "getApkDetails" -> "testing.applicationDetailService.getApkDetails"
              [] c = "cancel" -> "testing.projects.testMatrices.cancel"
              [] c = "create" -> "testing.projects.testMatrices.create"
              [] c = "get" -> "testing.projects.testMatrices.get"
              [] c = "catalogGet" -> "testing.testEnvironmentCatalog.get",
     http_method |-> "POST"]

MethodInfo(c) ==
    CASE c = "getApkDetails" -> [id |-> "testing.applicationDetailService.getApkDetails",
                                 http_method |-> "POST"]
      [] c = "cancel" -> [id |-> "testing.projects.testMatrices.cancel", http_method |-> "POST"]
      [] c = "create" -> [id |-> "testing.projects.testMatrices.create", http_method |-> "POST"]
      [] c = "get" -> [id |-> "testing.projects.testMatrices.get", http_method |-> "GET"]
      [] c = "catalogGet" -> [id |-> "testing.testEnvironmentCatalog.get", http_method |-> "GET"]

\* the names the loop `for &field in [..]` checks, in its order
ReservedFields_noAlt(c) ==
    CASE c = "getApkDetails" -> <<>>
      [] c = "cancel" -> <<"projectId", "testMatrixId">>
      [] c = "create" -> <<"projectId", "requestId">>
      [] c = "get" -> <<"projectId", "testMatrixId">>
      [] c = "catalogGet" -> <<"environmentType", "projectId">>

ReservedFields(c) ==
    CASE c = "getApkDetails" -> <<"alt">>
      [] c = "cancel" -> <<"alt", "projectId", "testMatrixId">>
      [] c = "create" -> <<"alt", "projectId", "requestId">>
      [] c = "get" -> <<"alt", "projectId", "testMatrixId">>
      [] c = "catalogGet" -> <<"alt", "environmentType", "projectId">>

\* the first reserved field that _additional_params contains, if any
FieldClash(c, params) ==
    LET fields == ReservedFields(c)
        hit == {i \in DOMAIN fields : fields[i] \in DOMAIN params}
    IN  IF hit = {} THEN None
        ELSE Some(fields[CHOOSE i \in hit : \A j \in hit : i <= j])

\* if self._scopes.len() == 0 { insert(Scope::CloudPlatform) }
DefaultScope_always(scopes) == scopes \cup {CloudPlatform}

DefaultScope(scopes) ==
    IF Cardinality(scopes) = 0 THEN {CloudPlatform} ELSE scopes

\* the calls that carry a request value
HasBody(c) == c \in {"getApkDetails", "create"}

\* params.push(..) of the call's own parameters, before the reserved-field check
RequiredParams(c, rid, pid) ==
    CASE c = "getApkDetails" -> <<>>
      [] c = "cancel" -> << <<"projectId", project_id_arg>>,
                            <<"testMatrixId", test_matrix_id_arg>> >>
      [] c = "create" -> << <<"projectId", project_id_arg>> >>
                         \o (IF rid.some THEN << <<"requestId", rid.v>> >> ELSE <<>>)
      [] c = "get" -> << <<"projectId", project_id_arg>>,
                         <<"testMatrixId", test_matrix_id_arg>> >>
      [] c = "catalogGet" -> << <<"environmentType", environment_type_arg>> >>
                             \o (IF pid.some THEN << <<"projectId", pid.v>> >> ELSE <<>>)

\* the orders in which self._additional_params.iter() may yield the names:
\* a HashMap iterates in an arbitrary order
IterOrders(additional) ==
    LET n == Cardinality(DOMAIN additional)
    IN  {o \in [1..n -> DOMAIN additional] : \A i, j \in 1..n : o[i] = o[j] => i = j}

\* for (name, value) in self._additional_params.iter() { params.push(..) }
AdditionalParams(additional, order) ==
    [i \in DOMAIN order |-> <<order[i], additional[order[i]]>>]

\* params.push(("alt", "json".to_string()))
AltParam_missing == <<>>

AltParam == << <<"alt", "json">> >>

\* the vector params, as doit() has filled it
Params(c, rid, pid, additional, order) ==
    RequiredParams(c, rid, pid) \o AdditionalParams(additional, order) \o AltParam

\* the path appended to the base url, cut at its {placeholders}
PathTemplate(c) ==
    CASE c = "getApkDetails" -> <<"v1/applicationDetailService/getApkDetails">>
      [] c = "cancel" -> <<"v1/projects/", "{projectId}", "/testMatrices/",
                           "{testMatrixId}", ":cancel">>
      [] c = "create" -> <<"v1/projects/", "{projectId}", "/testMatrices">>
      [] c = "get" -> <<"v1/projects/", "{projectId}", "/testMatrices/", "{testMatrixId}">>
      [] c = "catalogGet" -> <<"v1/testEnvironmentCatalog/", "{environmentType}">>

\* for &(find_this, param_name) in [..]
Substitutions(c) ==
    CASE c = "getApkDetails" -> <<>>
      [] c = "cancel" -> << <<"{projectId}", "projectId">>,
                            <<"{testMatrixId}", "testMatrixId">> >>
      [] c = "create" -> << <<"{projectId}", "projectId">> >>
      [] c = "get" -> << <<"{projectId}", "projectId">>,
                         <<"{testMatrixId}", "testMatrixId">> >>
      [] c = "catalogGet" -> << <<"{environmentType}", "environmentType">> >>

\* for param_name in [..], the names whose entries leave params
RemovalNames_pathOrder(c) ==
    CASE c = "getApkDetails" -> <<>>
      [] c = "cancel" -> <<"projectId", "testMatrixId">>
      [] c = "create" -> <<"projectId">>
      [] c = "get" -> <<"projectId", "testMatrixId">>
      [] c = "catalogGet" -> <<"environmentType">>

RemovalNames(c) ==
    CASE c = "getApkDetails" -> <<>>
      [] c = "cancel" -> <<"testMatrixId", "projectId">>
      [] c = "create" -> <<"projectId">>
      [] c = "get" -> <<"testMatrixId", "projectId">>
      [] c = "catalogGet" -> <<"environmentType">>

\* params.iter().position(|t| &t.0 == param_name): 0 stands for None
position(params, name) ==
    LET hit == {i \in DOMAIN params : params[i][1] = name}
    IN  IF hit = {} THEN 0 ELSE CHOOSE i \in hit : \A j \in hit : i <= j

\* the value of the first parameter called param_name
replace_with(params, param_name) == params[position(params, param_name)][2]

\* url.replace(find_this, replace_with), on the pieces of the path
replace(path, find_this, with) ==
    [i \in DOMAIN path |-> IF path[i] = find_this THEN with ELSE path[i]]

RECURSIVE Substituted(_, _, _)
Substituted(path, params, substitutions) ==
    IF substitutions = <<>> THEN path
    ELSE Substituted(replace(path, Head(substitutions)[1],
                             replace_with(params, Head(substitutions)[2])),
                     params, Tail(substitutions))

\* the indices of the names found, in the order of the names
RECURSIVE indices_for_removal(_, _)
indices_for_removal(params, names) ==
    IF names = <<>> THEN <<>>
    ELSE (IF position(params, Head(names)) = 0 THEN <<>>
          ELSE <<position(params, Head(names))>>)
         \o indices_for_removal(params, Tail(names))

\* Vec::remove(index), index counted from 1
remove(v, index) == [i \in 1..(Len(v) - 1) |-> IF i < index THEN v[i] ELSE v[i + 1]]

\* for &index in indices_for_removal.iter() { params.remove(index) }
RECURSIVE Removed(_, _)
Removed(params, indices) ==
    IF indices = <<>> THEN params
    ELSE Removed(remove(params, Head(indices)), Tail(indices))

RECURSIVE Concat(_)
Concat(pieces) == IF pieces = <<>> THEN "" ELSE Head(pieces) \o Concat(Tail(pieces))

\* url::Url::parse_with_params(&url, params): the location and the query pairs
parse_with_params(location, params) == [location |-> location, query |-> params]

\* the url doit() builds before the loop
Url(c, base_url, params) ==
    parse_with_params(base_url \o Concat(Substituted(PathTemplate(c), params,
                                                      Substitutions(c))),
                      Removed(params, indices_for_removal(params, RemovalNames(c))))

\* url.clone().into_string()
RECURSIVE QueryString(_)
QueryString(query) ==
    IF query = <<>> THEN ""
    ELSE Head(query)[1] \o "=" \o Head(query)[2]
         \o (IF Len(query) > 1 THEN "&" ELSE "") \o QueryString(Tail(query))

into_string(u) == u.location \o "?" \o QueryString(u.query)

\* the members of the request types, under their JSON names and in key order
Schema(type) ==
    CASE type = "FileReference" -> <<"gcsPath">>
      [] type = "TestMatrix" -> <<"clientInfo", "failFast", "invalidMatrixDetails",
                                  "projectId", "state", "testMatrixId">>
      [] type = "ClientInfo" -> <<"name">>

\* the type of a member: Option<ClientInfo>, Option<bool> or Option<String>
MemberType(name) ==
    CASE name = "clientInfo" -> "ClientInfo"
      [] name = "failFast" -> "bool"
      [] OTHER -> "String"

\* json::value::to_value(&self._request): a member that is None becomes null
Null == [json |-> "null", s |-> ""]
String(s) == [json |-> "string", s |-> s]
Bool(b) == [json |-> "bool", s |-> IF b THEN "true" ELSE "false"]
Object(members) == [json |-> "object", s |-> "", m |-> members]
RECURSIVE to_value_emptyAsNull(_)
to_value_emptyAsNull(request) ==
    [i \in DOMAIN request |->
        <<request[i][1],
          IF ~request[i][2].some THEN Null
          ELSE CASE MemberType(request[i][1]) = "String" ->
                        IF request[i][2].v = "" THEN Null ELSE String(request[i][2].v)
                 [] MemberType(request[i][1]) = "bool" -> Bool(request[i][2].v)
                 [] OTHER -> Object(to_value_emptyAsNull(request[i][2].v))>>]

RECURSIVE to_value(_)
to_value(request) ==
    [i \in DOMAIN request |->
        <<request[i][1],
          IF ~request[i][2].some THEN Null
          ELSE CASE MemberType(request[i][1]) = "String" -> String(request[i][2].v)
                 [] MemberType(request[i][1]) = "bool" -> Bool(request[i][2].v)
                 [] OTHER -> Object(to_value(request[i][2].v))>>]

\* client::remove_json_null_values(&mut value)
RECURSIVE remove_json_null_values(_)
remove_json_null_values(value) ==
    LET kept == SelectSeq(value, LAMBDA m : m[2].json # "null")
    IN  [i \in DOMAIN kept |->
            IF kept[i][2].json = "object"
            THEN <<kept[i][1], Object(remove_json_null_values(kept[i][2].m))>>
            ELSE kept[i]]

\* json::to_writer(&mut dst, &value)
Quote == "\""
Backslash == "\\"
RECURSIVE Escape(_)
Escape(s) ==
    IF s = "" THEN ""
    ELSE (IF Head(s) \in {Quote, Backslash} THEN Backslash ELSE "") \o Head(s)
         \o Escape(Tail(s))

RECURSIVE Members(_)
Members(value) ==
    IF value = <<>> THEN ""
    ELSE Quote \o Head(value)[1] \o Quote \o ":"
         \o (CASE Head(value)[2].json = "string" ->
                      Quote \o Escape(Head(value)[2].s) \o Quote
               [] Head(value)[2].json = "object" ->
                      "{" \o Members(Head(value)[2].m) \o "}"
               [] OTHER -> Head(value)[2].s)
         \o (IF Len(value) > 1 THEN "," ELSE "") \o Members(Tail(value))

to_writer(value) == "{" \o Members(value) \o "}"

(***************************************************************************)
(* json::from_slice into a request type: the text is parsed into a JSON    *)
(* value, then the members of the type are taken from it by name; a        *)
(* member that is absent or null becomes None                              *)
(***************************************************************************)
Parsed(v, rest) == [ok |-> TRUE, v |-> v, rest |-> rest]
Malformed == [ok |-> FALSE, v |-> <<>>, rest |-> ""]

\* the characters of a string up to its closing quote, escapes undone
RECURSIVE ParseChars(_)
ParseChars(s) ==
    IF s = "" THEN Malformed
    ELSE IF Head(s) = Quote THEN Parsed("", Tail(s))
    ELSE IF Head(s) = Backslash
         THEN IF Tail(s) = "" THEN Malformed
              ELSE LET r == ParseChars(Tail(Tail(s)))
                   IN  IF r.ok THEN Parsed(Head(Tail(s)) \o r.v, r.rest) ELSE Malformed
    ELSE LET r == ParseChars(Tail(s))
         IN  IF r.ok THEN Parsed(Head(s) \o r.v, r.rest) ELSE Malformed

StartsWith(s, prefix) == Len(s) >= Len(prefix) /\ SubSeq(s, 1, Len(prefix)) = prefix
Skip(s, n) == SubSeq(s, n + 1, Len(s))

RECURSIVE ParseValue(_), ParseMembers(_)
ParseValue(s) ==
    IF s = "" THEN Malformed
    ELSE IF Head(s) = Quote
         THEN LET r == ParseChars(Tail(s))
              IN  IF r.ok THEN Parsed(String(r.v), r.rest) ELSE Malformed
    ELSE IF Head(s) = "{"
         THEN LET r == ParseMembers(Tail(s))
              IN  IF r.ok THEN Parsed(Object(r.v), r.rest) ELSE Malformed
    ELSE IF StartsWith(s, "true") THEN Parsed(Bool(TRUE), Skip(s, 4))
    ELSE IF StartsWith(s, "false") THEN Parsed(Bool(FALSE), Skip(s, 5))
    ELSE IF StartsWith(s, "null") THEN Parsed(Null, Skip(s, 4))
    ELSE Malformed

\* the members of an object, from behind its opening brace or a comma
ParseMembers(s) ==
    IF s = "" THEN Malformed
    ELSE IF Head(s) = "}" THEN Parsed(<<>>, Tail(s))
    ELSE IF Head(s) # Quote THEN Malformed
    ELSE LET name == ParseChars(Tail(s))
         IN  IF ~name.ok \/ ~StartsWith(name.rest, ":") THEN Malformed
             ELSE LET member == ParseValue(Tail(name.rest))
                  IN  IF ~member.ok THEN Malformed
                      ELSE LET more == IF StartsWith(member.rest, ",")
                                       THEN ParseMembers(Tail(member.rest))
                                       ELSE IF StartsWith(member.rest, "}")
                                            THEN Parsed(<<>>, Tail(member.rest))
                                            ELSE Malformed
                           IN  IF more.ok
                               THEN Parsed(<<<<name.v, member.v>>>> \o more.v, more.rest)
                               ELSE Malformed

\* whether a JSON value can be read as a member of the type
Conforms(json, type) ==
    \/ json = "null"
    \/ json = "string" /\ type = "String"
    \/ json = "bool" /\ type = "bool"
    \/ json = "object" /\ type \notin {"String", "bool"}

RECURSIVE from_value(_, _)
from_value(type, members) ==
    LET schema == Schema(type)
        At(name) == {j \in DOMAIN members : members[j][1] = name}
        member(name) == members[CHOOSE j \in At(name) : \A k \in At(name) : k <= j][2]
        read(name) ==
            IF At(name) = {} THEN Ok(None)
            ELSE IF ~Conforms(member(name).json, MemberType(name)) THEN Err("invalid type")
            ELSE CASE member(name).json = "null" -> Ok(None)
                   [] member(name).json = "string" -> Ok(Some(member(name).s))
                   [] member(name).json = "bool" -> Ok(Some(member(name).s = "true"))
                   [] OTHER ->
                        LET inner == from_value(MemberType(name), member(name).m)
                        IN  IF inner.ok THEN Ok(Some(inner.v)) ELSE inner
    IN  IF \E i \in DOMAIN schema : ~read(schema[i]).ok
        THEN Err("invalid type")
        ELSE Ok([i \in DOMAIN schema |-> <<schema[i], read(schema[i]).v>>])

from_slice(type, bytes) ==
    LET r == ParseValue(bytes)
    IN  IF ~r.ok \/ r.rest # "" THEN Err("expected value")
        ELSE IF r.v.json # "object" THEN Err("invalid type")
        ELSE from_value(type, r.v.m)

\* request_value_reader, rewound: the serialized request value and the cursor
Reader(c, request) ==
    IF HasBody(c)
    THEN [buf |-> to_writer(remove_json_null_values(to_value(request))), pos |-> 0]
    ELSE NoReader

\* let mut dlg = match self._delegate { Some(d) => d, None => &mut dd }
Dlg_alwaysCustom(d) == "custom"

Dlg(d) == IF d.some THEN "custom" ELSE "default"

(***************************************************************************)
(* The collaborators doit() calls                                          *)
(***************************************************************************)
\* res.status().is_success(): the status is in 200..=299
is_success_from100(status) == 100 <= status /\ status <= 299

is_success_never(status) == FALSE

is_success_below400(status) == 200 <= status /\ status < 400

is_success_only200(status) == status = 200

is_success(status) == 200 <= status /\ status <= 299

\* json::from_str::<serde_json::Value>(&res_body_string)
from_str_Value(body) ==
    CASE body = "7" -> Ok([json |-> "number", n |-> 7])
      [] body = "{}" -> Ok([json |-> "object", n |-> 0])
      [] OTHER -> Err("expected value")

\* the response struct of each call
ResponseType(c) ==
    CASE c = "getApkDetails" -> "GetApkDetailsResponse"
      [] c = "cancel" -> "CancelTestMatrixResponse"
      [] c = "create" -> "TestMatrix"
      [] c = "get" -> "TestMatrix"
      [] c = "catalogGet" -> "TestEnvironmentCatalog"

\* json::from_str(&res_body_string) into the call's response struct, whose
\* members are all optional: an object decodes, anything else does not
from_str_anyValue(c, body) ==
    LET value == from_str_Value(body)
    IN  IF ~value.ok THEN Err(value.v)
        ELSE Ok([type |-> ResponseType(c), members |-> {}])

from_str(c, body) ==
    LET value == from_str_Value(body)
    IN  IF ~value.ok THEN Err(value.v)
        ELSE IF value.v.json = "object"
             THEN Ok([type |-> ResponseType(c), members |-> {}])
             ELSE Err("invalid type")

\* Result::ok()
ok(r) == IF r.ok THEN Some(r.v) ELSE None

\* client::DefaultDelegate
DefaultDelegate_token(err) == None
DefaultDelegate_http_error(err) == Abort
DefaultDelegate_http_failure(response, value) == Abort

\* what a caller-supplied delegate may answer; it grants at most MaxRetries retries
Retries == Count("sleep")

RetryAnswers == {Abort} \cup (IF Retries < MaxRetries THEN {After(d) : d \in Durations} ELSE {})

dlg_token(d, err) ==
    IF d = "default" THEN {DefaultDelegate_token(err)} ELSE {None, Some(SubstituteToken)}

dlg_http_error(d, err) ==
    IF d = "default" THEN {DefaultDelegate_http_error(err)} ELSE RetryAnswers

dlg_http_failure(d, response, value) ==
    IF d = "default" THEN {DefaultDelegate_http_failure(response, value)} ELSE RetryAnswers

(***************************************************************************)
(* doit()                                                                  *)
(***************************************************************************)
dlg == Dlg(_delegate)

\* the token the provider hands out on the n-th request
NextToken == ProviderToken(Count("auth.token"))

\* match token(..).await { Ok(token) => token, Err(err) => match dlg.token(&err) {..} }
TokenOrSubstitute_reusesBearer(answer, substitute) ==
    IF answer.ok THEN Some(answer.v)
    ELSE IF substitute.some THEN substitute
    ELSE IF requests # <<>> THEN Some(requests[Len(requests)].bearer)
    ELSE None

TokenOrSubstitute_ignoreSubstitute(answer, substitute) ==
    IF answer.ok THEN Some(answer.v) ELSE None

TokenOrSubstitute(answer, substitute) ==
    IF answer.ok THEN Some(answer.v) ELSE substitute

\* the request of one attempt: hyper::Request::builder().method(..).uri(..)
\* .header(USER_AGENT, ..).header(AUTHORIZATION, ..) and, with a request value,
\* .header(CONTENT_TYPE, ..).header(CONTENT_LENGTH, request_size).body(..)
Request_bodyNotRewound(c, tok) ==
    [method |-> MethodInfo(c).http_method,
     uri |-> into_string(url),
     user_agent |-> _user_agent,
     bearer |-> tok,
     content_type |-> IF HasBody(c) THEN Some("application/json") ELSE None,
     content_length |-> IF HasBody(c) THEN Some(Len(request_value_reader.buf)) ELSE None,
     body |-> IF requests = <<>> THEN request_value_reader.buf ELSE ""]

Request(c, tok) ==
    [method |-> MethodInfo(c).http_method,
     uri |-> into_string(url),
     user_agent |-> _user_agent,
     bearer |-> tok,
     content_type |-> IF HasBody(c) THEN Some("application/json") ELSE None,
     content_length |-> IF HasBody(c) THEN Some(Len(request_value_reader.buf)) ELSE None,
     body |-> IF HasBody(c) THEN request_value_reader.buf ELSE ""]

\* dlg.pre_request(), then the request is built and handed to client.request
Attempt_afterFinished(tok) ==
    <<Ev("finished", 0), Ev("pre_request", 0), Ev("client.request", tok.n)>>

Attempt_preRequestOnce(tok) ==
    (IF Count("pre_request") = 0 THEN <<Ev("pre_request", 0)>> ELSE <<>>)
    \o <<Ev("client.request", tok.n)>>

Attempt(tok) == <<Ev("pre_request", 0), Ev("client.request", tok.n)>>

\* if let client::Retry::After(d) = .. { sleep(d); continue; }
IsRetry_never(answer) == FALSE

IsRetry_onceWhateverAnswer(answer) == Count("sleep") < 1

IsRetry_capped(answer) == answer.retry = "After" /\ Count("sleep") < 1

IsRetry(answer) == answer.retry = "After"

\* return match server_response { Some(v) => BadRequest(v), None => Failure(restored) }
FailureResult_alwaysFailure(server_response, restored_response) ==
    [kind |-> "Failure", payload |-> restored_response]

FailureResult_unbuffered(server_response, restored_response) ==
    IF server_response.some
    THEN [kind |-> "BadRequest", payload |-> server_response.v]
    ELSE [kind |-> "Failure", payload |-> [restored_response EXCEPT !.body = ""]]

FailureResult(server_response, restored_response) ==
    IF server_response.some
    THEN [kind |-> "BadRequest", payload |-> server_response.v]
    ELSE [kind |-> "Failure", payload |-> restored_response]

\* where `continue` resumes: the top of `loop`, which is the token request
LoopStart_outOfLoop == "lost"

LoopStart_belowToken == "send"

LoopStart == "token"

\* from dlg.begin to the first token request
doit_begin ==
    /\ pc = "build"
    /\ LET clash == FieldClash(call, _additional_params)
           begin == Hook("begin", MethodInfo(call), 0)
       IN  IF clash.some
           THEN /\ hooks' = <<begin, Hook("finished", <<FALSE>>, 0)>>
                /\ trace' = <<Ev("begin", 0), Ev("finished", 0)>>
                /\ result' = [kind |-> "FieldClash", payload |-> clash.v]
                /\ pc' = "done"
                /\ UNCHANGED <<_scopes, url, request_value_reader, token_request>>
           ELSE /\ hooks' = <<begin>>
                /\ trace' = <<Ev("begin", 0), Ev("auth.token", 0)>>
                /\ \E order \in IterOrders(_additional_params) :
                      url' = Url(call, _base_url,
                                 Params(call, _request_id, _project_id,
                                        _additional_params, order))
                /\ _scopes' = DefaultScope(_scopes)
                /\ request_value_reader' = Reader(call, _request)
                /\ token_request' = [made |-> TRUE, scopes |-> _scopes']
                /\ pc' = "token"
                /\ UNCHANGED result
    /\ UNCHANGED <<hub, hub_calls, deserialized, scheduler,
                   call, _request, _delegate, _additional_params, _request_id,
                   _project_id, added, last_scope_none,
                   token, res, res_body_string, sent, requests, sleeping>>

\* the token request completes; with a token the request is built and sent
token_done(answer) ==
    /\ pc = "token"
    /\ \E substitute \in (IF answer.ok THEN {None} ELSE dlg_token(dlg, answer.v)) :
          LET tok == TokenOrSubstitute(answer, substitute)
              asked == IF answer.ok THEN <<>> ELSE <<Hook("token", answer.v, substitute)>>
              askedEv == IF answer.ok THEN <<Ev("auth.token.ok", 0)>>
                         ELSE <<Ev("auth.token.err", 0),
                                Ev("token", IF substitute.some THEN 1 ELSE 0)>>
          IN  IF tok.some
              THEN /\ token' = tok.v
                   /\ request_value_reader' = [request_value_reader EXCEPT !.pos = 0]
                   /\ sent' = Request(call, tok.v)
                   /\ requests' = Append(requests, sent')
                   /\ hooks' = hooks \o asked \o <<Hook("pre_request", 0, 0)>>
                   /\ trace' = trace \o askedEv \o Attempt(tok.v)
                   /\ pc' = "send"
                   /\ UNCHANGED result
              ELSE /\ hooks' = hooks \o asked \o <<Hook("finished", <<FALSE>>, 0)>>
                   /\ trace' = trace \o askedEv \o <<Ev("finished", 0)>>
                   /\ result' = [kind |-> "MissingToken", payload |-> answer.v]
                   /\ pc' = "done"
                   /\ UNCHANGED <<token, request_value_reader, sent, requests>>
    /\ UNCHANGED <<hub, hub_calls, deserialized, scheduler,
                   builder, url, token_request, res, res_body_string, sleeping>>

\* client.request(..).await fails at transport level
request_failed(err) ==
    /\ pc = "send"
    /\ \E answer \in dlg_http_error(dlg, err) :
          LET asked == Hook("http_error", err, answer)
          IN  IF IsRetry(answer)
              THEN /\ hooks' = hooks \o <<asked>>
                   /\ trace' = trace \o <<Ev("client.request.err", 0),
                                          Ev("http_error", Granted(answer)), Ev("sleep", 0)>>
                   /\ sleeping' = answer.d
                   /\ pc' = "sleep"
                   /\ UNCHANGED result
              ELSE /\ hooks' = hooks \o <<asked, Hook("finished", <<FALSE>>, 0)>>
                   /\ trace' = trace \o <<Ev("client.request.err", 0),
                                          Ev("http_error", Granted(answer)), Ev("finished", 0)>>
                   /\ result' = [kind |-> "HttpError", payload |-> err]
                   /\ pc' = "done"
                   /\ UNCHANGED sleeping
    /\ UNCHANGED <<hub, hub_calls, deserialized, scheduler,
                   builder, url, request_value_reader, token_request, token,
                   res, res_body_string, sent, requests>>

\* client.request(..).await yields a response, whose body is still to be read
request_answered(status) ==
    /\ pc = "send"
    /\ res' = [status |-> status, body |-> Unread]
    /\ trace' = Append(trace, Ev("client.request.ok", IF Is2xx(status) THEN 1 ELSE 0))
    /\ pc' = "body"
    /\ UNCHANGED <<hub, hub_calls, deserialized, scheduler,
                   builder, url, request_value_reader, token_request, token,
                   res_body_string, sent, requests, sleeping, hooks, result>>

\* get_body_as_string(res.body_mut()).await completes with the whole body
body_read(body) ==
    /\ pc = "body"
    /\ res_body_string' = body
    /\ IF ~is_success(res.status)
       THEN LET restored_response == [status |-> res.status, body |-> body]
                server_response == ok(from_str_Value(body))
            IN  \E answer \in dlg_http_failure(dlg, restored_response, server_response) :
                  LET asked == Hook("http_failure",
                                    <<restored_response, server_response>>, answer)
                  IN  /\ res' = [res EXCEPT !.body = ""]
                      /\ IF IsRetry(answer)
                         THEN /\ hooks' = hooks \o <<asked>>
                              /\ trace' = trace \o <<Ev("http_failure", Granted(answer)),
                                                     Ev("sleep", 0)>>
                              /\ sleeping' = answer.d
                              /\ pc' = "sleep"
                              /\ UNCHANGED result
                         ELSE /\ hooks' = hooks \o <<asked, Hook("finished", <<FALSE>>, 0)>>
                              /\ trace' = trace \o <<Ev("http_failure", Granted(answer)),
                                                     Ev("finished", 0)>>
                              /\ result' = FailureResult(server_response, restored_response)
                              /\ pc' = "done"
                              /\ UNCHANGED sleeping
       ELSE LET decoded == from_str(call, body)
                drained == [res EXCEPT !.body = ""]
            IN  /\ res' = drained
                /\ pc' = "done"
                /\ UNCHANGED sleeping
                /\ IF decoded.ok
                   THEN /\ hooks' = Append(hooks, Hook("finished", <<TRUE>>, 0))
                        /\ trace' = Append(trace, Ev("finished", 1))
                        /\ result' = [kind |-> "Ok", payload |-> <<drained, decoded.v>>]
                   ELSE /\ hooks' = Append(hooks, Hook("response_json_decode_error",
                                                       <<body, decoded.v>>, 0))
                        /\ trace' = Append(trace, Ev("response_json_decode_error", 0))
                        /\ result' = [kind |-> "JsonDecodeError",
                                      payload |-> <<body, decoded.v>>]
    /\ UNCHANGED <<hub, hub_calls, deserialized, scheduler, builder, url,
                   request_value_reader, token_request, token, sent, requests>>

\* sleep(d) returns and `continue` starts the next iteration
sleep_done ==
    /\ pc = "sleep"
    /\ sleeping' = 0
    /\ res' = NoRes
    /\ res_body_string' = ""
    /\ pc' = LoopStart
    /\ IF LoopStart = "token"
       THEN /\ token' = NoToken
            /\ sent' = NoRequest
            /\ hooks' = <<>>
            /\ trace' = Append(trace, Ev("auth.token", 0))
            /\ token_request' = [made |-> TRUE, scopes |-> _scopes]
            /\ UNCHANGED requests
       ELSE \* a loop that starts below the token request sends again with the token it has
            /\ hooks' = <<Hook("pre_request", 0, 0)>>
            /\ trace' = trace \o Attempt(token)
            /\ requests' = Append(requests, sent)
            /\ UNCHANGED <<token, sent, token_request>>
    /\ UNCHANGED <<hub, hub_calls, deserialized, scheduler, builder, url,
                   request_value_reader, result>>

Next ==
    \/ \E name \in ParamNames, value \in ParamValues : param(name, value)
    \/ delegate
    \/ \E s \in ScopeNames : add_scope(Some(s))
    \/ \E v \in ParamValues : request_id(v)
    \/ \E v \in ParamValues : project_id(v)
    \/ doit_begin
    \/ token_done(Ok(NextToken))
    \/ \E e \in AuthErrors : token_done(Err(e))
    \/ \E err \in TransportErrors : request_failed(err)
    \/ \E status \in Statuses : request_answered(status)
    \/ \E body \in Bodies : body_read(body)
    \/ sleep_done

Spec == Init /\ [][Next]_vars

(***************************************************************************)
(* The request pipeline of a call whose scope set is left as constructed:  *)
(* every setter but add_scope(), and doit().  The scope set only reaches   *)
(* the token request, which has the specification below.                   *)
(***************************************************************************)
NextPipeline ==
    \/ \E name \in ParamNames, value \in ParamValues : param(name, value)
    \/ delegate
    \/ \E v \in ParamValues : request_id(v)
    \/ \E v \in ParamValues : project_id(v)
    \/ doit_begin
    \/ token_done(Ok(NextToken))
    \/ \E e \in AuthErrors : token_done(Err(e))
    \/ \E err \in TransportErrors : request_failed(err)
    \/ \E status \in Statuses : request_answered(status)
    \/ \E body \in Bodies : body_read(body)
    \/ sleep_done

SpecPipeline == Init /\ [][NextPipeline]_vars

(***************************************************************************)
(* The url of a call: a builder on which the parameters are set, and its   *)
(* doit() up to the first request, with a token provider that succeeds     *)
(***************************************************************************)
NextUrl ==
    \/ \E name \in ParamNames, value \in ParamValues : param(name, value)
    \/ delegate
    \/ \E v \in ParamValues : request_id(v)
    \/ \E v \in ParamValues : project_id(v)
    \/ doit_begin
    \/ token_done(Ok(NextToken))

SpecUrl == Init /\ [][NextUrl]_vars

(***************************************************************************)
(* The scopes of a call: a builder on which only add_scope() and           *)
(* delegate() are called, add_scope(None) included, and its doit()         *)
(***************************************************************************)
NextScopes ==
    \/ add_scope(None)
    \/ \E s \in ScopeNames : add_scope(Some(s))
    \/ delegate
    \/ doit_begin
    \/ token_done(Ok(NextToken))
    \/ \E e \in AuthErrors : token_done(Err(e))
    \/ \E err \in TransportErrors : request_failed(err)
    \/ \E status \in Statuses : request_answered(status)
    \/ \E body \in Bodies : body_read(body)
    \/ sleep_done

SpecScopes == Init /\ [][NextScopes]_vars

(***************************************************************************)
(* The request value: serialized as doit() does, and read back from the    *)
(* bytes into the same request type                                        *)
(***************************************************************************)
StringMembers == {None, Some(""), Some("my-project"), Some("a\"b\\c")}
BoolMembers == {None, Some(TRUE), Some(FALSE)}
ClientInfos == {None} \cup {Some(<< <<"name", n>> >>) : n \in {None, Some("x")}}
FileReferences == {<< <<"gcsPath", g>> >> : g \in StringMembers}
TestMatrices ==
    {<< <<"clientInfo", ci>>, <<"failFast", ff>>, <<"invalidMatrixDetails", None>>,
        <<"projectId", p>>, <<"state", st>>, <<"testMatrixId", None>> >> :
     ci \in ClientInfos, ff \in BoolMembers, p \in StringMembers, st \in {None, Some("")}}

RequestType(c) ==
    CASE c = "getApkDetails" -> "FileReference"
      [] c = "create" -> "TestMatrix"

serialize ==
    /\ pc = "value"
    /\ request_value_reader' = Reader(call, _request)
    /\ pc' = "serialized"
    /\ UNCHANGED <<hub, hub_calls, deserialized, scheduler, builder, url, token_request,
                   token, res, res_body_string, sent, requests, sleeping, hooks, trace,
                   result>>

deserialize ==
    /\ pc = "serialized"
    /\ deserialized' = from_slice(RequestType(call), request_value_reader.buf)
    /\ pc' = "deserialized"
    /\ UNCHANGED <<hub, hub_calls, scheduler, builder, url, request_value_reader,
                   token_request, token, res, res_body_string, sent, requests, sleeping,
                   hooks, trace, result>>

InitRoundTrip ==
    /\ _user_agent = DefaultUserAgent
    /\ _base_url = DefaultBaseUrl
    /\ _root_url = DefaultRootUrl
    /\ hub_calls = <<>>
    /\ deserialized = NotDeserialized
    /\ \/ call = "getApkDetails" /\ _request \in FileReferences
       \/ call = "create" /\ _request \in TestMatrices
    /\ _delegate = None
    /\ _additional_params = [n \in {} |-> "x"]
    /\ _scopes = {}
    /\ _request_id = None
    /\ _project_id = None
    /\ added = {}
    /\ last_scope_none = FALSE
    /\ pc = "value"
    /\ url = NoUrl
    /\ request_value_reader = NoReader
    /\ token_request = NoTokenRequest
    /\ token = NoToken
    /\ res = NoRes
    /\ res_body_string = ""
    /\ sent = NoRequest
    /\ requests = <<>>
    /\ sleeping = 0
    /\ hooks = <<>>
    /\ trace = <<>>
    /\ result = NoResult
    /\ current = 1
    /\ parked = NoInvocation
    /\ script = NoScript

NextRoundTrip == serialize \/ deserialize

SpecRoundTrip == InitRoundTrip /\ [][NextRoundTrip]_vars

(***************************************************************************)
(* The status classes: doit() of a call whose token requests succeed and   *)
(* whose transport answers with a status of any class                      *)
(***************************************************************************)
NextStatuses ==
    \/ delegate
    \/ doit_begin
    \/ token_done(Ok(NextToken))
    \/ \E status \in {100, 199, 200, 204, 299, 300, 301, 400, 404, 500, 503, 599} :
          request_answered(status)
    \/ \E body \in Bodies : body_read(body)
    \/ sleep_done

SpecStatuses == Init /\ [][NextStatuses]_vars

(***************************************************************************)
(* Termination: doit() with a token provider, a transport and a body read  *)
(* that each eventually answer, a sleep that returns, and a delegate that  *)
(* grants a retry at most MaxRetries times                                 *)
(***************************************************************************)
TokenAnswers == token_done(Ok(NextToken)) \/ \E e \in AuthErrors : token_done(Err(e))

TransportAnswers ==
    \/ \E err \in TransportErrors : request_failed(err)
    \/ \E status \in Statuses : request_answered(status)

BodyAnswers == \E body \in Bodies : body_read(body)

NextTermination ==
    \/ \E value \in ParamValues : param("alt", value)
    \/ delegate
    \/ doit_begin
    \/ TokenAnswers
    \/ TransportAnswers
    \/ BodyAnswers
    \/ sleep_done

SpecTermination ==
    /\ Init /\ [][NextTermination]_vars
    /\ WF_vars(TokenAnswers)
    /\ WF_vars(TransportAnswers)
    /\ WF_vars(BodyAnswers)
    /\ WF_vars(sleep_done)

(***************************************************************************)
(* The hub: Testing::new, its three setters, then one call built on it     *)
(* (the builder borrows the hub, so no setter can be called any more) and  *)
(* the call's doit() with the default delegate                             *)
(***************************************************************************)

\* mem::replace(dest, src): stores src, returns what dest held
mem_replace_returnsNew(dest, src) == [stored |-> src, returned |-> src]

mem_replace(dest, src) == [stored |-> src, returned |-> dest]

HubCall(setter, arg, returned) == [setter |-> setter, arg |-> arg, returned |-> returned]

user_agent(agent_name) ==
    /\ pc = "hub"
    /\ Len(hub_calls) < MaxHubCalls
    /\ LET r == mem_replace(_user_agent, agent_name)
       IN  /\ _user_agent' = r.stored
           /\ hub_calls' = Append(hub_calls, HubCall("user_agent", agent_name, r.returned))
    /\ UNCHANGED <<_base_url, _root_url, deserialized, scheduler, builder, pipeline>>

base_url(new_base_url) ==
    /\ pc = "hub"
    /\ Len(hub_calls) < MaxHubCalls
    /\ LET r == mem_replace(_base_url, new_base_url)
       IN  /\ _base_url' = r.stored
           /\ hub_calls' = Append(hub_calls, HubCall("base_url", new_base_url, r.returned))
    /\ UNCHANGED <<_user_agent, _root_url, deserialized, scheduler, builder, pipeline>>

root_url(new_root_url) ==
    /\ pc = "hub"
    /\ Len(hub_calls) < MaxHubCalls
    /\ LET r == mem_replace(_root_url, new_root_url)
       IN  /\ _root_url' = r.stored
           /\ hub_calls' = Append(hub_calls, HubCall("root_url", new_root_url, r.returned))
    /\ UNCHANGED <<_user_agent, _base_url, deserialized, scheduler, builder, pipeline>>

\* hub.application_detail_service().get_apk_details(request) and the four others
build(c) ==
    /\ pc = "hub"
    /\ call' = c
    /\ _request' = RequestValue(c)
    /\ _delegate' = None
    /\ _additional_params' = [n \in {} |-> "x"]
    /\ _scopes' = {}
    /\ pc' = "build"
    /\ UNCHANGED <<hub, hub_calls, deserialized, scheduler, _request_id, _project_id, added,
                   last_scope_none, url, request_value_reader, token_request, token, res,
                   res_body_string, sent, requests, sleeping, hooks, trace, result>>

InitHub ==
    /\ _user_agent = DefaultUserAgent
    /\ _base_url = DefaultBaseUrl
    /\ _root_url = DefaultRootUrl
    /\ hub_calls = <<>>
    /\ deserialized = NotDeserialized
    /\ call = NoCall
    /\ _request = NoRequestValue
    /\ _delegate = None
    /\ _additional_params = [n \in {} |-> "x"]
    /\ _scopes = {}
    /\ _request_id = None
    /\ _project_id = None
    /\ added = {}
    /\ last_scope_none = FALSE
    /\ pc = "hub"
    /\ url = NoUrl
    /\ request_value_reader = NoReader
    /\ token_request = NoTokenRequest
    /\ token = NoToken
    /\ res = NoRes
    /\ res_body_string = ""
    /\ sent = NoRequest
    /\ requests = <<>>
    /\ sleeping = 0
    /\ hooks = <<>>
    /\ trace = <<>>
    /\ result = NoResult
    /\ current = 1
    /\ parked = NoInvocation
    /\ script = NoScript

NextHub ==
    \/ \E agent_name \in {DefaultUserAgent, "my-agent/1.0"} : user_agent(agent_name)
    \/ \E new_base_url \in {DefaultBaseUrl, "http://localhost:8080/"} : base_url(new_base_url)
    \/ \E new_root_url \in {DefaultRootUrl, "http://localhost:8080/"} : root_url(new_root_url)
    \/ \E c \in Calls : build(c)
    \/ doit_begin
    \/ token_done(Ok(NextToken))
    \/ \E e \in AuthErrors : token_done(Err(e))
    \/ \E err \in TransportErrors : request_failed(err)
    \/ \E status \in Statuses : request_answered(status)
    \/ \E body \in Bodies : body_read(body)

SpecHub == InitHub /\ [][NextHub]_vars

(***************************************************************************)
(* Two invocations on one scheduler thread.  doit() is an async fn: at     *)
(* each .await the thread may leave the invocation it runs and poll the    *)
(* other one, whose self and locals are kept meanwhile.  sleep(d) is       *)
(* std::thread::sleep: it returns to no scheduler, the thread stays in     *)
(* the sleeping invocation until the duration is over.  Both builders are  *)
(* built alike and both invocations meet the same deterministic token      *)
(* provider, transport and delegate: what these answer in an attempt is    *)
(* a function of the attempt's number.                                     *)
(***************************************************************************)
\* where doit() awaits: hub.auth.token, client.request, get_body_as_string
AwaitPoints == {"token", "send", "body"}

\* self and the locals of the invocation the thread is running
Suspended ==
    [call |-> call, _request |-> _request, _delegate |-> _delegate,
     _additional_params |-> _additional_params, _scopes |-> _scopes,
     _request_id |-> _request_id, _project_id |-> _project_id,
     added |-> added, last_scope_none |-> last_scope_none,
     pc |-> pc, url |-> url, request_value_reader |-> request_value_reader,
     token_request |-> token_request, token |-> token, res |-> res,
     res_body_string |-> res_body_string, sent |-> sent, requests |-> requests,
     sleeping |-> sleeping, hooks |-> hooks, trace |-> trace, result |-> result]

\* what an invocation finds in its self and locals when it is polled again
Resume_sharedResponse(inv) == [inv EXCEPT !.res = res]

Resume(inv) == inv

\* the thread leaves the invocation it runs, which is not started, awaiting or
\* done, and polls the other one
switch ==
    /\ pc \in {"build", "done"} \cup AwaitPoints
    /\ parked.pc \in {"build"} \cup AwaitPoints
    /\ parked' = Suspended
    /\ current' = 3 - current
    /\ LET inv == Resume(parked)
       IN  /\ call' = inv.call
           /\ _request' = inv._request
           /\ _delegate' = inv._delegate
           /\ _additional_params' = inv._additional_params
           /\ _scopes' = inv._scopes
           /\ _request_id' = inv._request_id
           /\ _project_id' = inv._project_id
           /\ added' = inv.added
           /\ last_scope_none' = inv.last_scope_none
           /\ pc' = inv.pc
           /\ url' = inv.url
           /\ request_value_reader' = inv.request_value_reader
           /\ token_request' = inv.token_request
           /\ token' = inv.token
           /\ res' = inv.res
           /\ res_body_string' = inv.res_body_string
           /\ sent' = inv.sent
           /\ requests' = inv.requests
           /\ sleeping' = inv.sleeping
           /\ hooks' = inv.hooks
           /\ trace' = inv.trace
           /\ result' = inv.result
    /\ UNCHANGED <<hub, hub_calls, deserialized, script>>

\* what the token provider, the delegate and the transport answer in one attempt
Answers(tok, substitute, transport, status, body, retry) ==
    [token |-> tok, substitute |-> substitute, transport |-> transport,
     status |-> status, body |-> body, retry |-> retry]

\* attempts the delegate has retried
RetriedAttempts ==
    {Answers("ok", FALSE, "timed out", 0, "", After(1)),
     Answers("ok", FALSE, "ok", 404, "7", After(2)),
     Answers("invalid_grant", TRUE, "ok", 300, "oops", After(1))}

\* attempts that end the invocation
LastAttempts ==
    {Answers("ok", FALSE, "connection refused", 0, "", Abort),
     Answers("ok", FALSE, "ok", 404, "7", Abort),
     Answers("ok", FALSE, "ok", 300, "oops", Abort),
     Answers("ok", FALSE, "ok", 200, "{}", Abort),
     Answers("ok", FALSE, "ok", 299, "oops", Abort),
     Answers("access_denied", FALSE, "ok", 0, "", Abort),
     Answers("invalid_grant", TRUE, "ok", 200, "{}", Abort)}

Scripts ==
    UNION {{s \in [1..n -> RetriedAttempts \cup LastAttempts] :
               /\ \A i \in 1..(n - 1) : s[i] \in RetriedAttempts
               /\ s[n] \in LastAttempts} : n \in 1..(MaxRetries + 1)}

\* the attempt the running invocation is in, and what it is answered there
attempt == Count("auth.token")
answers == script[attempt]

\* the delegate has answered as the script says
Scripted ==
    \A i \in DOMAIN hooks :
        /\ hooks[i].hook = "token" => hooks[i].ret.some = answers.substitute
        /\ hooks[i].hook \in {"http_error", "http_failure"} => hooks[i].ret = answers.retry

\* the additional parameters of the two builders
TwoParams == [n \in {"fields", "environmentType"} |-> "x"]

InitTwo ==
    /\ _user_agent = DefaultUserAgent
    /\ _base_url = DefaultBaseUrl
    /\ _root_url = DefaultRootUrl
    /\ hub_calls = <<>>
    /\ deserialized = NotDeserialized
    /\ call \in {"create", "get"}
    /\ _request = RequestValue(call)
    /\ _delegate = Some("custom")
    /\ _additional_params \in {[n \in {} |-> "x"], TwoParams}
    /\ _scopes = {}
    /\ _request_id = None
    /\ _project_id = None
    /\ added = {}
    /\ last_scope_none = FALSE
    /\ pc = "build"
    /\ url = NoUrl
    /\ request_value_reader = NoReader
    /\ token_request = NoTokenRequest
    /\ token = NoToken
    /\ res = NoRes
    /\ res_body_string = ""
    /\ sent = NoRequest
    /\ requests = <<>>
    /\ sleeping = 0
    /\ hooks = <<>>
    /\ trace = <<>>
    /\ result = NoResult
    /\ current = 1
    /\ parked = Suspended
    /\ script \in Scripts

\* doit() against the deterministic token provider, transport and delegate
NextScripted ==
    \/ doit_begin
    \/ (pc = "token" /\ answers.token = "ok" /\ token_done(Ok(NextToken)))
    \/ (pc = "token" /\ answers.token # "ok" /\ token_done(Err(answers.token))
          /\ Scripted')
    \/ (pc = "send" /\ answers.transport # "ok" /\ request_failed(answers.transport)
          /\ Scripted')
    \/ (pc = "send" /\ answers.transport = "ok" /\ request_answered(answers.status))
    \/ (pc = "body" /\ body_read(answers.body) /\ Scripted')
    \/ sleep_done

NextTwo == switch \/ NextScripted

SpecTwo == InitTwo /\ [][NextTwo]_vars

(***************************************************************************)
(* doit() run twice, one invocation after the other: the second builder    *)
(* is consumed when the first invocation has returned                      *)
(***************************************************************************)
NextTwice == (pc = "done" /\ switch) \/ NextScripted

SpecTwice == InitTwo /\ [][NextTwice]_vars

(***************************************************************************)
(* What the trace tells                                                    *)
(***************************************************************************)
At(e) == {i \in DOMAIN trace : trace[i].e = e}
Finished == At("finished")
Returned == pc = "done"

\* the additional parameters name none of the call's reserved parameters:
\* alt, and every parameter the call has a setter for
ReservedNames(c) ==
    {"alt"} \cup (CASE c = "getApkDetails" -> {}
                    [] c = "cancel" -> {"projectId", "testMatrixId"}
                    [] c = "create" -> {"projectId", "requestId"}
                    [] c = "get" -> {"projectId", "testMatrixId"}
                    [] c = "catalogGet" -> {"environmentType", "projectId"})
NoReservedParam == DOMAIN _additional_params \cap ReservedNames(call) = {}

\* the environment's answers so far
TokenAlwaysSucceeded == At("auth.token.err") = {}
TransportNeverFailed == At("client.request.err") = {}
Non2xx == {i \in At("client.request.ok") : trace[i].a = 0}
\* the current iteration has received a response and buffered its body
BodyBuffered == res.status # 0 /\ res.body # Unread

(***************************************************************************)
(* C1: every invocation of doit() that returns has called the delegate's   *)
(* finished hook exactly once before the return, with true for Ok and with *)
(* false for each of the six error outcomes.                               *)
(***************************************************************************)
C1_FinishedExactlyOnce ==
    Returned =>
        /\ Cardinality(Finished) = 1
        /\ \A i \in Finished : trace[i].a = (IF result.kind = "Ok" THEN 1 ELSE 0)

(***************************************************************************)
(* C2: with no reserved additional parameter, a token provider that always *)
(* succeeds and a transport that answers 2xx with a body that decodes to   *)
(* the response type, doit() returns Ok with the received response and the *)
(* decoded value, finished(true) is signaled exactly once, and exactly one *)
(* token request and one transport request were made.                      *)
(***************************************************************************)
C2_SuccessPath ==
    (/\ Returned
     /\ NoReservedParam
     /\ TokenAlwaysSucceeded
     /\ TransportNeverFailed
     /\ Non2xx = {}
     /\ BodyBuffered
     /\ from_str(call, res_body_string).ok)
    => /\ result.kind = "Ok"
       /\ result.payload[1].status = res.status
       /\ result.payload[2] = from_str(call, res_body_string).v
       /\ result.payload[2].type = ResponseType(call)
       /\ Cardinality(Finished) = 1
       /\ \A i \in Finished : trace[i].a = 1 /\ i = Len(trace)
       /\ Cardinality(At("auth.token")) = 1
       /\ Cardinality(At("client.request")) = 1

C2_Witness ==
    /\ Returned
    /\ result.kind = "Ok"
    /\ res.status = 299
    /\ call = "create"
    /\ _request_id.some
    /\ DOMAIN _additional_params = {"fields"}
    /\ TokenAlwaysSucceeded

(***************************************************************************)
(* C3: a non-2xx response whose body parses as JSON, with no retry asked   *)
(* for by http_failure, makes doit() return BadRequest carrying exactly    *)
(* the JSON value parsed from that body, with finished(false) signaled     *)
(* exactly once.                                                           *)
(***************************************************************************)
C3_BadRequestCarriesParsedBody ==
    (/\ Returned
     /\ BodyBuffered
     /\ ~Is2xx(res.status)
     /\ from_str_Value(res_body_string).ok)
    => /\ result.kind = "BadRequest"
       /\ result.payload = from_str_Value(res_body_string).v
       /\ Cardinality(Finished) = 1
       /\ \A i \in Finished : trace[i].a = 0 /\ i = Len(trace)

C3_Witness ==
    /\ Returned
    /\ res.status = 404
    /\ res_body_string = "7"
    /\ result.kind = "BadRequest"
    /\ result.payload.json = "number"
    /\ Cardinality(At("http_failure")) = 2

(***************************************************************************)
(* C4: a non-2xx response whose body does not parse as JSON (the empty     *)
(* body included), with no retry asked for by http_failure, makes doit()   *)
(* return Failure carrying the response rebuilt with the buffered body,    *)
(* never BadRequest, and http_failure received None as parsed error body.  *)
(***************************************************************************)
C4_FailureCarriesRestoredResponse ==
    (/\ Returned
     /\ BodyBuffered
     /\ ~Is2xx(res.status)
     /\ ~from_str_Value(res_body_string).ok)
    => /\ result.kind = "Failure"
       /\ result.payload = [status |-> res.status, body |-> res_body_string]
       /\ \E i \in DOMAIN hooks :
             /\ hooks[i].hook = "http_failure"
             /\ hooks[i].arg[1] = [status |-> res.status, body |-> res_body_string]
             /\ hooks[i].arg[2] = None
             /\ hooks[i].ret = Abort

C4_Witness ==
    /\ Returned
    /\ res.status = 300
    /\ res_body_string = "oops"
    /\ result.kind = "Failure"

C4_WitnessEmptyBody ==
    /\ Returned
    /\ res.status = 199
    /\ res_body_string = ""
    /\ result.kind = "Failure"

\* the retries the delegate granted through http_error
GrantedByHttpError == {i \in At("http_error") : trace[i].a = 1}


(***************************************************************************)
(* C5: for every N, when the token provider always succeeds, every attempt *)
(* fails at transport level and http_error answers Retry::After on its     *)
(* first N consultations and no retry on the next, doit() makes exactly    *)
(* N+1 transport requests and N+1 token requests and returns HttpError     *)
(* carrying the last transport error.                                      *)
(***************************************************************************)
C5_RetriesExactlyAsGranted ==
    (/\ Returned
     /\ NoReservedParam
     /\ TokenAlwaysSucceeded
     /\ At("client.request.ok") = {})
    => LET N == Cardinality(GrantedByHttpError)
       IN  /\ Cardinality(At("http_error")) = N + 1
           /\ Cardinality(At("client.request")) = N + 1
           /\ Cardinality(At("auth.token")) = N + 1
           /\ result.kind = "HttpError"
           /\ hooks[Len(hooks) - 1].hook = "http_error"
           /\ result.payload = hooks[Len(hooks) - 1].arg

C5_Witness ==
    /\ Returned
    /\ TokenAlwaysSucceeded
    /\ At("client.request.ok") = {}
    /\ Cardinality(GrantedByHttpError) = MaxRetries
    /\ result.kind = "HttpError"

C6_WitnessSetterUsed ==
    /\ Returned
    /\ call = "catalogGet"
    /\ _project_id.some
    /\ "projectId" \in DOMAIN _additional_params
    /\ result.kind = "FieldClash"

C6_WitnessOtherName ==
    /\ Returned
    /\ call = "getApkDetails"
    /\ "projectId" \in DOMAIN _additional_params
    /\ result.kind = "Ok"

\* the calls of the token hook in the current iteration
TokenHooks == {i \in DOMAIN hooks : hooks[i].hook = "token"}


(***************************************************************************)
(* C7: when the token provider fails in an iteration, the delegate's token *)
(* hook is consulted exactly once for that iteration, and never when the   *)
(* provider succeeds.  A substitute token lets the attempt proceed with    *)
(* that token as bearer; without one doit() signals finished(false) and    *)
(* returns MissingToken with the provider's error, and neither pre_request *)
(* nor a transport request happens in that iteration.                      *)
(***************************************************************************)
C7_TokenHookOnProviderFailure ==
    /\ \A i \in At("auth.token.err") : i < Len(trace) /\ trace[i + 1].e = "token"
    /\ \A i \in At("token") : trace[i - 1].e = "auth.token.err"
    /\ \A i \in At("auth.token.ok") : trace[i + 1].e = "pre_request"
    /\ \A i \in At("token") :
          IF trace[i].a = 1
          THEN /\ i + 2 <= Len(trace)
               /\ trace[i + 1].e = "pre_request"
               /\ trace[i + 2] = Ev("client.request", SubstituteToken.n)
          ELSE /\ i + 1 = Len(trace)
               /\ trace[i + 1] = Ev("finished", 0)
               /\ Returned
               /\ result.kind = "MissingToken"
    /\ Cardinality(TokenHooks) <= 1
    /\ \A i \in TokenHooks :
          IF hooks[i].ret.some
          THEN token = hooks[i].ret.v /\ sent.bearer = hooks[i].ret.v
          ELSE /\ result.kind = "MissingToken"
               /\ result.payload = hooks[i].arg
               /\ sent = NoRequest
    /\ result.kind = "MissingToken" => \E i \in TokenHooks : ~hooks[i].ret.some

C7_Witness ==
    /\ pc = "send"
    /\ Cardinality(At("client.request")) = 2
    /\ sent.bearer = SubstituteToken
    /\ \E i \in TokenHooks : hooks[i].arg = "invalid_grant"

C7_WitnessMissingToken ==
    /\ Returned
    /\ result.kind = "MissingToken"
    /\ result.payload = "access_denied"
    /\ _delegate.some
    /\ Cardinality(At("auth.token")) = 2

(***************************************************************************)
(* C8: without delegate() the default delegate is used, which never asks   *)
(* for a retry: an invocation makes at most one token request and at most  *)
(* one transport request, and the first transport error or non-2xx         *)
(* response ends it with HttpError, BadRequest or Failure.                 *)
(***************************************************************************)
C8_DefaultDelegateNeverRetries ==
    ~_delegate.some =>
        /\ Cardinality(At("auth.token")) <= 1
        /\ Cardinality(At("client.request")) <= 1
        /\ At("sleep") = {}
        /\ At("token") # {} => Returned /\ result.kind = "MissingToken"
        /\ At("client.request.err") # {} => Returned /\ result.kind = "HttpError"
        /\ (Non2xx # {} /\ pc # "body") =>
              Returned /\ result.kind \in {"BadRequest", "Failure"}

C8_Witness ==
    /\ ~_delegate.some
    /\ Returned
    /\ result.kind = "HttpError"
    /\ Cardinality(At("client.request")) = 1

C8_WitnessNon2xx ==
    /\ ~_delegate.some
    /\ Returned
    /\ result.kind = "BadRequest"
    /\ res.status = 300

(***************************************************************************)
(* C9: every retry, after a transport error as after a non-2xx response,   *)
(* restarts at token acquisition: each transport request is preceded by    *)
(* its own token request made after the previous transport request, there  *)
(* are at least as many token requests as transport requests, and a token  *)
(* obtained in one iteration is not used in a later one.                   *)
(***************************************************************************)
C9_RetryRefetchesToken ==
    /\ \A i \in At("sleep") : i < Len(trace) => trace[i + 1].e = "auth.token"
    /\ \A i \in At("client.request") :
          \E j \in At("auth.token") :
              j < i /\ \A k \in At("client.request") : ~(j < k /\ k < i)
    /\ Cardinality(At("auth.token")) >= Cardinality(At("client.request"))
    /\ \A i, k \in At("client.request") :
          (i < k /\ trace[i].a # SubstituteToken.n) => trace[k].a # trace[i].a

C9_Witness ==
    /\ pc = "send"
    /\ Cardinality(At("client.request")) = 3
    /\ \E i \in At("http_error") : trace[i].a = 1
    /\ \E i \in At("http_failure") : trace[i].a = 1
    /\ TokenAlwaysSucceeded

\* the consultations of the two retry hooks, and the scenario of an
\* environment that makes every attempt fail and always asks for a retry
RetryHooks == At("http_error") \cup At("http_failure")
AlwaysRetryAfter == \A i \in RetryHooks : trace[i].a = 1
TransportAlwaysFailing == \A i \in At("client.request.ok") : trace[i].a = 0


(***************************************************************************)
(* C10: the pipeline enforces no retry cap.  While the token provider      *)
(* succeeds, every attempt fails (transport error or non-2xx) and the      *)
(* delegate answers Retry::After, doit() neither returns nor signals       *)
(* finished, and every retry granted is followed by another attempt: the   *)
(* number of transport requests is only bounded by the retries granted.    *)
(***************************************************************************)
C10_NoRetryCap ==
    (/\ pc # "build"
     /\ NoReservedParam
     /\ TokenAlwaysSucceeded
     /\ TransportAlwaysFailing
     /\ AlwaysRetryAfter)
    => /\ ~Returned
       /\ result.kind = "none"
       /\ Finished = {}
       /\ Cardinality(At("sleep")) = Cardinality(RetryHooks)
       /\ Cardinality(At("auth.token")) =
             Cardinality(RetryHooks) + (IF pc = "sleep" THEN 0 ELSE 1)
       /\ pc \in {"send", "body"} =>
             Cardinality(At("client.request")) = Cardinality(RetryHooks) + 1

C10_Witness ==
    /\ pc = "send"
    /\ NoReservedParam
    /\ TokenAlwaysSucceeded
    /\ TransportAlwaysFailing
    /\ AlwaysRetryAfter
    /\ At("http_failure") # {}
    /\ Cardinality(At("client.request")) = MaxRetries + 1

(***************************************************************************)
(* C11: whatever scopes were added before, add_scope(None) leaves the      *)
(* builder with an empty scope set, and doit() then asks for a token       *)
(* without the default scope: no previously added scope remains and        *)
(* Scope::CloudPlatform is not inserted.                                   *)
(***************************************************************************)
C11_NoneClearsScopes ==
    last_scope_none =>
        /\ pc = "build" => _scopes = {}
        /\ token_request.made => token_request.scopes = {}

\* the scope set a token is to be asked for, given the scopes added
ExpectedScopes == IF added = {} THEN {CloudPlatform} ELSE added

C12_WitnessDefault ==
    /\ pc = "token"
    /\ Cardinality(At("auth.token")) = 2
    /\ added = {}
    /\ token_request.scopes = {CloudPlatform}

\* the other invocation can be polled: it is not started or awaits an answer
OtherCanRun == parked.pc \in {"build"} \cup AwaitPoints

(***************************************************************************)
(* C13: while one call sleeps between two attempts, for the duration its   *)
(* delegate returned, another call on the same scheduler thread can still  *)
(* make progress: the thread can leave the sleeping call and poll the      *)
(* other one.                                                              *)
(***************************************************************************)
C13_SleepBlocksOnlySleeper ==
    (pc = "sleep" /\ OtherCanRun) => ENABLED switch

\* the two invocations have made the same calls as far as both have come
IsPrefix(s, t) == Len(s) <= Len(t) /\ s = SubSeq(t, 1, Len(s))
SamePath ==
    /\ IsPrefix(trace, parked.trace) \/ IsPrefix(parked.trace, trace)
    /\ Len(trace) = Len(parked.trace) =>
          /\ pc = parked.pc
          /\ hooks = parked.hooks
          /\ result = parked.result

SameBuilders ==
    \A f \in {"call", "_request", "_delegate", "_additional_params", "_scopes",
               "_request_id", "_project_id"} : parked[f] = Suspended[f]

(***************************************************************************)
(* C20: doit() run twice on two structurally identical builders, against   *)
(* the same deterministic token provider, transport and delegate, makes    *)
(* the same token requests, the same transport requests and the same       *)
(* delegate calls, and returns the same outcome.                           *)
(***************************************************************************)
C20_SameBuildersSameRuns ==
    (pc = "done" /\ parked.pc = "done" /\ SameBuilders) =>
        /\ token_request = parked.token_request
        /\ requests = parked.requests
        /\ trace = parked.trace
        /\ hooks = parked.hooks
        /\ result = parked.result

\* a request with its Authorization header left out
WithoutBearer(r) == [r EXCEPT !.bearer = NoToken]

(***************************************************************************)
(* C15: method, url and body of the transport request are fixed before the *)
(* first attempt and identical on every attempt, only the bearer token may *)
(* differ.  getApkDetails and create send the complete serialized request  *)
(* value with content-type application/json and a content-length equal to  *)
(* its length in bytes; the other calls send an empty body without these   *)
(* headers.                                                                *)
(***************************************************************************)
C15_RequestFixedAcrossAttempts ==
    \A i \in DOMAIN requests :
        LET r == requests[i] IN
        /\ WithoutBearer(r) = WithoutBearer(requests[1])
        /\ r.method = MethodInfo(call).http_method
        /\ r.uri = into_string(url)
        /\ IF call \in {"getApkDetails", "create"}
           THEN /\ r.body = to_writer(remove_json_null_values(to_value(_request)))
                /\ r.body = request_value_reader.buf
                /\ r.content_type = Some("application/json")
                /\ r.content_length = Some(Len(r.body))
           ELSE /\ r.body = ""
                /\ r.content_type = None
                /\ r.content_length = None

C15_Witness ==
    /\ call = "create"
    /\ Len(requests) = 2
    /\ requests[1].bearer # requests[2].bearer
    /\ requests[2].body # ""

\* the positions of the query pairs named alt
AltPairs(query) == {i \in DOMAIN query : query[i][1] = "alt"}

(***************************************************************************)
(* C16: every request sent carries the query parameter alt=json, exactly   *)
(* once, whatever additional parameters were set.                          *)
(***************************************************************************)
C16_AltJsonOnce ==
    \A i \in DOMAIN requests :
        /\ requests[i].uri = into_string(url)
        /\ Cardinality(AltPairs(url.query)) = 1
        /\ \A j \in AltPairs(url.query) : url.query[j] = <<"alt", "json">>

C16_Witness ==
    /\ call = "get"
    /\ Len(requests) = 2
    /\ DOMAIN _additional_params = {"fields"}
    /\ url.query = <<<<"fields", "x">>, <<"alt", "json">>>>

(***************************************************************************)
(* C17: begin is signaled exactly once per invocation, before every other  *)
(* hook and before the reserved-parameter check (so also when the outcome  *)
(* is FieldClash), with the method id and the HTTP method of the call, and *)
(* not again on retries.                                                   *)
(***************************************************************************)
C17_BeginOnceFirst ==
    LET id == CASE call = "getApkDetails" ->
                       "testing.applicationDetailService.getApkDetails"
                [] call = "cancel" -> "testing.projects.testMatrices.cancel"
                [] call = "create" -> "testing.projects.testMatrices.create"
                [] call = "get" -> "testing.projects.testMatrices.get"
                [] call = "catalogGet" -> "testing.testEnvironmentCatalog.get"
        http_method == IF call \in {"get", "catalogGet"} THEN "GET" ELSE "POST"
    IN  /\ pc = "build" => trace = <<>> /\ hooks = <<>>
        /\ pc # "build" => trace[1].e = "begin" /\ Count("begin") = 1
        /\ (pc # "build" /\ Count("sleep") = 0) => hooks[1].hook = "begin"
        /\ \A i \in DOMAIN hooks :
              hooks[i].hook = "begin" =>
                  /\ i = 1
                  /\ hooks[i].arg = [id |-> id, http_method |-> http_method]
        /\ result.kind = "FieldClash" =>
              /\ trace = <<Ev("begin", 0), Ev("finished", 0)>>
              /\ hooks[1].hook = "begin"

C17_Witness ==
    /\ call = "get"
    /\ pc = "send"
    /\ Count("sleep") = 2
    /\ Count("begin") = 1
    /\ trace[1].e = "begin"

C17_WitnessFieldClash ==
    /\ result.kind = "FieldClash"
    /\ hooks[1] = Hook("begin", [id |-> "testing.projects.testMatrices.get",
                                 http_method |-> "GET"], 0)

(***************************************************************************)
(* C18: pre_request is signaled exactly once per attempt, after the token  *)
(* was obtained (from the provider or from the delegate) and immediately   *)
(* before the request is handed to the transport; the number of            *)
(* pre_request calls equals the number of transport requests.              *)
(***************************************************************************)
C18_PreRequestPerAttempt ==
    /\ Count("pre_request") = Count("client.request")
    /\ Count("pre_request") = Len(requests)
    /\ \A i \in DOMAIN trace :
          /\ trace[i].e = "client.request" =>
                i > 1 /\ trace[i - 1].e = "pre_request"
          /\ trace[i].e = "pre_request" =>
                /\ i > 1 /\ i < Len(trace)
                /\ trace[i + 1].e = "client.request"
                /\ \/ trace[i - 1].e = "auth.token.ok"
                   \/ trace[i - 1] = Ev("token", 1)
          /\ (trace[i].e = "auth.token.ok" \/ trace[i] = Ev("token", 1)) =>
                i < Len(trace) /\ trace[i + 1].e = "pre_request"
    /\ Len(SelectSeq(hooks, LAMBDA h : h.hook = "pre_request")) <= 1

C18_Witness ==
    /\ pc = "send"
    /\ Count("pre_request") = 3
    /\ Count("client.request") = 3
    /\ Count("token") = 1

\* the last recorded answer among the events named in S, "" without one
LastOf(S) ==
    LET I == {i \in DOMAIN trace : trace[i].e \in S}
    IN  IF I = {} THEN ""
        ELSE trace[CHOOSE i \in I : \A j \in I : j <= i].e

(***************************************************************************)
(* C19: every error doit() returns is one of FieldClash, MissingToken,     *)
(* HttpError, BadRequest, Failure, JsonDecodeError, each only under its    *)
(* defining condition: FieldClash before any I/O, MissingToken only after  *)
(* a failed token request, HttpError only after a transport error,         *)
(* BadRequest and Failure only after a response outside 200..299,          *)
(* JsonDecodeError only after a response within 200..299.  Io,             *)
(* MissingAPIKey, Cancelled and UploadSizeLimitExceeded are never          *)
(* returned.                                                               *)
(***************************************************************************)
C19_ErrorKinds ==
    LET tokenAnswer == LastOf({"auth.token.ok", "auth.token.err"})
        transportAnswer == LastOf({"client.request", "client.request.ok",
                                   "client.request.err"})
    IN  /\ result.kind \in {"none", "Ok", "FieldClash", "MissingToken", "HttpError",
                           "BadRequest", "Failure", "JsonDecodeError"}
        /\ result.kind \notin {"Io", "MissingAPIKey", "Cancelled",
                              "UploadSizeLimitExceeded"}
        /\ pc = "done" <=> result.kind # "none"
        /\ result.kind = "FieldClash" =>
              /\ ~token_request.made
              /\ requests = <<>>
              /\ Count("auth.token") = 0 /\ Count("client.request") = 0
        /\ result.kind = "MissingToken" =>
              /\ tokenAnswer = "auth.token.err"
              /\ Len(requests) = Count("auth.token") - 1
        /\ result.kind = "HttpError" =>
              /\ tokenAnswer # ""
              /\ transportAnswer = "client.request.err"
        /\ result.kind \in {"BadRequest", "Failure"} =>
              /\ transportAnswer = "client.request.ok"
              /\ res.status < 200 \/ res.status > 299
        /\ result.kind = "JsonDecodeError" =>
              /\ transportAnswer = "client.request.ok"
              /\ 200 <= res.status /\ res.status <= 299

C19_Witness ==
    /\ result.kind = "JsonDecodeError"
    /\ res.status = 299
    /\ Count("sleep") = 1

(***************************************************************************)
(* C21: in any sequence of user_agent, base_url and root_url calls on a    *)
(* hub, each call returns the value its field held immediately before the  *)
(* call (the default of new() for the first call), stores the new value    *)
(* and leaves the other two fields unchanged; a call built afterwards      *)
(* sends the latest user agent to a url that starts with the latest base   *)
(* url.                                                                    *)
(***************************************************************************)
C21_HubSetters ==
    LET DefaultOf(setter) ==
            CASE setter = "user_agent" -> "google-api-rust-client/4.0.1"
              [] setter = "base_url" -> "https://testing.googleapis.com/"
              [] setter = "root_url" -> "https://testing.googleapis.com/"
        \* the value a field of the hub holds after the first n setter calls
        FieldAfter(setter, n) ==
            LET I == {i \in 1..n : hub_calls[i].setter = setter}
            IN  IF I = {} THEN DefaultOf(setter)
                ELSE hub_calls[CHOOSE i \in I : \A j \in I : j <= i].arg
    IN  /\ \A i \in DOMAIN hub_calls :
              hub_calls[i].returned = FieldAfter(hub_calls[i].setter, i - 1)
        /\ _user_agent = FieldAfter("user_agent", Len(hub_calls))
        /\ _base_url = FieldAfter("base_url", Len(hub_calls))
        /\ _root_url = FieldAfter("root_url", Len(hub_calls))
        /\ \A i \in DOMAIN requests :
              /\ requests[i].user_agent = _user_agent
              /\ requests[i].uri = into_string(url)
              /\ call = "getApkDetails" =>
                    url.location = _base_url \o "v1/applicationDetailService/getApkDetails"
              /\ call = "create" =>
                    url.location = _base_url \o "v1/projects/my-project/testMatrices"

C21_Witness ==
    /\ Len(hub_calls) = 3
    /\ hub_calls[1] = HubCall("user_agent", "my-agent/1.0", "google-api-rust-client/4.0.1")
    /\ hub_calls[2] = HubCall("base_url", "http://localhost:8080/",
                              "https://testing.googleapis.com/")
    /\ hub_calls[3] = HubCall("user_agent", "google-api-rust-client/4.0.1", "my-agent/1.0")
    /\ call = "create"
    /\ pc = "send"
    /\ sent.user_agent = "google-api-rust-client/4.0.1"
    /\ url.location = "http://localhost:8080/v1/projects/my-project/testMatrices"

(***************************************************************************)
(* C22: serializing a request value as doit() does for getApkDetails and   *)
(* create (JSON, null members removed) and deserializing the bytes into    *)
(* the same request type gives a value equal to the original.              *)
(***************************************************************************)
C22_RoundTrip ==
    pc = "deserialized" => deserialized.ok /\ deserialized.v = _request

C22_Witness ==
    /\ pc = "deserialized"
    /\ call = "create"
    /\ _request = << <<"clientInfo", Some(<< <<"name", None>> >>)>>,
                     <<"failFast", Some(FALSE)>>, <<"invalidMatrixDetails", None>>,
                     <<"projectId", Some("a\"b\\c")>>, <<"state", Some("")>>,
                     <<"testMatrixId", None>> >>
    /\ request_value_reader.buf =
          "{\"clientInfo\":{},\"failFast\":false,\"projectId\":\"a\\\"b\\\\c\",\"state\":\"\"}"
    /\ deserialized.ok

(***************************************************************************)
(* C23: on a response with a status in 200..299 whose body does not decode *)
(* to the response type, response_json_decode_error is called exactly once *)
(* with the buffered body, doit() returns JsonDecodeError with that same   *)
(* body and the parse error, and nothing is retried: no retry decision is  *)
(* asked of the delegate and neither a token nor a transport request       *)
(* follows.                                                                *)
(***************************************************************************)
C23_JsonDecodeError ==
    LET undecodable == res_body_string \in {"", "oops", "7"}
        answered == pc = "done" /\ LastOf({"client.request.ok", "client.request.err"})
                                     = "client.request.ok"
        success == 200 <= res.status /\ res.status <= 299
    IN  /\ Count("response_json_decode_error") <= 1
        /\ (answered /\ success /\ undecodable) => result.kind = "JsonDecodeError"
        /\ Count("response_json_decode_error") = 1 <=> result.kind = "JsonDecodeError"
        /\ result.kind = "JsonDecodeError" =>
              /\ pc = "done" /\ success /\ undecodable
              /\ result.payload[1] = res_body_string
              /\ result.payload[2] \in {"expected value", "invalid type"}
              /\ hooks[Len(hooks)] = Hook("response_json_decode_error", result.payload, 0)
              /\ \A i \in DOMAIN hooks :
                    /\ hooks[i].hook \notin {"http_error", "http_failure"}
                    /\ hooks[i].hook = "response_json_decode_error" => i = Len(hooks)
              /\ trace[Len(trace)].e = "response_json_decode_error"
              /\ trace[Len(trace) - 1].e = "client.request.ok"
              /\ Count("client.request") = Len(requests)
              /\ Count("sleep") = Count("client.request") - 1

C23_Witness ==
    /\ result = [kind |-> "JsonDecodeError", payload |-> <<"7", "invalid type">>]
    /\ res.status = 200
    /\ Count("sleep") = 1
    /\ hooks[Len(hooks)].hook = "response_json_decode_error"

(***************************************************************************)
(* C24: the pipeline sleeps only when the delegate answered                *)
(* Retry::After(D) to http_error or http_failure, for exactly that D,      *)
(* after the delegate's answer and before the next token request.  Between *)
(* two consecutive transport requests there is exactly one sleep, no sleep *)
(* happens before the first attempt or after the last one.                 *)
(***************************************************************************)
C24_SleepAsGranted ==
    /\ \A i \in DOMAIN trace :
          /\ trace[i].e = "sleep" =>
                /\ i > 1
                /\ trace[i - 1] \in {Ev("http_error", 1), Ev("http_failure", 1)}
                /\ i < Len(trace) => trace[i + 1].e = "auth.token"
                /\ i = Len(trace) => pc = "sleep"
          /\ trace[i].e \in {"http_error", "http_failure"} =>
                /\ i < Len(trace)
                /\ trace[i + 1].e = (IF trace[i].a = 1 THEN "sleep" ELSE "finished")
          /\ (trace[i].e = "auth.token" /\ i > 2) => trace[i - 1].e = "sleep"
          /\ trace[i].e = "client.request" =>
                LET CountUpTo(e) == Cardinality({j \in 1..i : trace[j].e = e})
                IN  CountUpTo("sleep") = CountUpTo("client.request") - 1
    /\ pc = "sleep" =>
          /\ trace[Len(trace)].e = "sleep"
          /\ hooks[Len(hooks)].hook \in {"http_error", "http_failure"}
          /\ hooks[Len(hooks)].ret.retry = "After"
          /\ sleeping = hooks[Len(hooks)].ret.d
    /\ pc # "sleep" => sleeping = 0
    /\ pc = "done" =>
          /\ trace[Len(trace)].e # "sleep"
          /\ Count("sleep") = Count("auth.token") - (IF Count("auth.token") = 0 THEN 0 ELSE 1)

C24_Witness ==
    /\ pc = "sleep"
    /\ sleeping = 2
    /\ Count("sleep") = 2
    /\ Count("client.request") = 2
    /\ hooks[Len(hooks)].hook = "http_failure"
    /\ hooks[Len(hooks)].ret = After(2)

(***************************************************************************)
(* C25: each attempt consults at most one retry hook, exactly once:        *)
(* http_error if and only if the transport returned a transport-level      *)
(* error, http_failure if and only if a response with a status outside     *)
(* 200..299 was received.  On a status in 200..299 neither is consulted,   *)
(* and a response is never reported through http_error.                    *)
(***************************************************************************)
C25_OneRetryHookPerAttempt ==
    /\ \A i \in DOMAIN trace :
          /\ trace[i].e = "client.request.err" =>
                i < Len(trace) /\ trace[i + 1].e = "http_error"
          /\ trace[i].e = "http_error" => trace[i - 1].e = "client.request.err"
          /\ trace[i].e = "http_failure" => trace[i - 1] = Ev("client.request.ok", 0)
          /\ trace[i] = Ev("client.request.ok", 0) =>
                IF i < Len(trace) THEN trace[i + 1].e = "http_failure" ELSE pc = "body"
          /\ trace[i] = Ev("client.request.ok", 1) =>
                IF i < Len(trace)
                THEN trace[i + 1].e \in {"finished", "response_json_decode_error"}
                ELSE pc = "body"
    /\ Len(SelectSeq(hooks, LAMBDA h : h.hook \in {"http_error", "http_failure"})) <= 1
    /\ \A i \in DOMAIN hooks :
          /\ hooks[i].hook = "http_error" =>
                /\ hooks[i].arg \in TransportErrors
                /\ res = NoRes
          /\ hooks[i].hook = "http_failure" =>
                /\ hooks[i].arg[1].status = res.status
                /\ res.status < 200 \/ res.status > 299
    /\ (pc = "done" /\ res # NoRes /\ 200 <= res.status /\ res.status <= 299) =>
          Len(SelectSeq(hooks, LAMBDA h : h.hook \in {"http_error", "http_failure"})) = 0
    /\ Count("http_error") = Count("client.request.err")
    /\ Count("http_error") + Count("http_failure") <= Count("client.request")

C25_Witness ==
    /\ pc = "done"
    /\ Count("http_error") = 1
    /\ Count("http_failure") = 2
    /\ Count("client.request") = 3
    /\ res.status = 199

\* the retry hooks consulted in the current iteration
Consulted == SelectSeq(hooks, LAMBDA h : h.hook \in {"http_error", "http_failure"})

(***************************************************************************)
(* C26: a response is handled as success if and only if its status is in   *)
(* 200..299.  Every other status (1xx, 3xx, 4xx, 5xx) takes the            *)
(* http_failure path and ends in a retry, BadRequest or Failure, never in  *)
(* Ok or JsonDecodeError; a status in 200..299 ends in Ok or               *)
(* JsonDecodeError without http_failure.                                   *)
(***************************************************************************)
C26_SuccessIff2xx ==
    LET handled == res # NoRes /\ pc \in {"sleep", "done"}
        success == 200 <= res.status /\ res.status <= 299
    IN  /\ (handled /\ ~success) =>
              /\ Len(Consulted) = 1
              /\ Consulted[1].hook = "http_failure"
              /\ Consulted[1].arg[1].status = res.status
              /\ \/ pc = "sleep" /\ result = NoResult /\ Consulted[1].ret.retry = "After"
                 \/ /\ pc = "done" /\ Consulted[1].ret.retry # "After"
                    /\ result.kind \in {"BadRequest", "Failure"}
        /\ (handled /\ success) =>
              /\ pc = "done"
              /\ Consulted = <<>>
              /\ result.kind \in {"Ok", "JsonDecodeError"}
        /\ result.kind \in {"Ok", "JsonDecodeError"} => success
        /\ result.kind \in {"BadRequest", "Failure"} => ~success

C26_Witness ==
    /\ pc = "done"
    /\ res.status = 503
    /\ result.kind = "BadRequest"
    /\ Count("sleep") = 1

C26_WitnessRedirect ==
    /\ pc = "sleep"
    /\ res.status = 301
    /\ Consulted # <<>>

\* why the loop of doit() was left in the current iteration
DelegateDeclined == Consulted # <<>> /\ Consulted[Len(Consulted)].ret.retry # "After"
TokenMissing == \E i \in DOMAIN hooks : hooks[i].hook = "token" /\ ~hooks[i].ret.some
SuccessReceived == res # NoRes /\ 200 <= res.status /\ res.status <= 299

(***************************************************************************)
(* C27: if the delegate answers Retry::After only finitely many times and  *)
(* the token provider, the transport and the body read each eventually     *)
(* answer, doit() eventually returns.  Every return from the loop is       *)
(* reached in the iteration in which the delegate declined to retry, the   *)
(* token was missing, or a response with a status in 200..299 was          *)
(* received.  (A return with FieldClash happens before the loop.)          *)
(***************************************************************************)
C27_Terminates ==
    /\ [](pc = "done" =>
            \/ result.kind = "FieldClash" /\ Count("auth.token") = 0
            \/ /\ result.kind \in {"HttpError", "BadRequest", "Failure"}
               /\ DelegateDeclined /\ ~TokenMissing /\ ~SuccessReceived
            \/ /\ result.kind = "MissingToken"
               /\ TokenMissing /\ Consulted = <<>> /\ ~SuccessReceived
            \/ /\ result.kind \in {"Ok", "JsonDecodeError"}
               /\ SuccessReceived /\ Consulted = <<>> /\ ~TokenMissing)
    /\ (pc \notin {"build", "done"}) ~> (pc = "done")

C27_Witness ==
    /\ pc = "done"
    /\ Count("sleep") = MaxRetries
    /\ result.kind = "Failure"
    /\ DelegateDeclined

(***************************************************************************)
(* C28: dlg.finished is called at most once per invocation, and when it is *)
(* called it is the last delegate call: once finished was called, doit()   *)
(* has returned, and no token, pre_request, http_error, http_failure or    *)
(* response_json_decode_error call and no token or transport request       *)
(* follows it.                                                             *)
(***************************************************************************)
C28_FinishedOnceAndLast ==
    /\ [](/\ Count("finished") <= 1
          /\ \A i \in DOMAIN trace :
                trace[i].e = "finished" => i = Len(trace) /\ pc = "done"
          /\ \A i \in DOMAIN hooks :
                hooks[i].hook = "finished" => i = Len(hooks))
    /\ [][Count("finished") = 1 =>
            UNCHANGED <<trace, hooks, requests, token_request, sent>>]_vars

C28_Witness ==
    /\ pc = "done" /\ result.kind = "Ok"
    /\ Count("sleep") >= 1 /\ Count("finished") = 1
    /\ trace[Len(trace)] = Ev("finished", 1)
    /\ hooks[Len(hooks)] = Hook("finished", <<TRUE>>, 0)

(***************************************************************************)
(* C29: the outcome is decided by the last iteration only.  When a retry   *)
(* was granted after a transport error or a non-2xx response and the next  *)
(* token request fails with no substitute from the delegate, doit()        *)
(* returns MissingToken with that token error, not HttpError, BadRequest   *)
(* or Failure: the failure of the earlier iteration is not reported.       *)
(***************************************************************************)
C29_LastIterationDecides ==
    pc = "done" /\ Count("sleep") >= 1 =>
        /\ TokenMissing <=> result.kind = "MissingToken"
        /\ TokenMissing =>
              /\ \E i \in TokenHooks : result.payload = hooks[i].arg
              /\ result.payload \in AuthErrors
              /\ Consulted = <<>>
              /\ SubSeq(trace, Len(trace) - 3, Len(trace))
                   = <<Ev("auth.token", 0), Ev("auth.token.err", 0),
                       Ev("token", 0), Ev("finished", 0)>>
              /\ trace[Len(trace) - 4] = Ev("sleep", 0)
        /\ result.kind \in {"HttpError", "BadRequest", "Failure"} => DelegateDeclined

C29_Witness ==
    /\ pc = "done" /\ result.kind = "MissingToken"
    /\ Count("http_error") = 1 /\ Count("http_failure") = 1
    /\ Count("sleep") = 2 /\ TokenMissing

(***************************************************************************)
(* C30: for cancel, create, get and the catalog get, every path parameter  *)
(* is substituted into the path of the url and removed from the query      *)
(* parameters, and nothing else is removed: the query of the request holds *)
(* no path parameter (projectId and testMatrixId for cancel and get,       *)
(* projectId for create, environmentType for the catalog get) and holds    *)
(* every optional query parameter that was set (requestId for create,      *)
(* projectId for the catalog get), every additional parameter and          *)
(* alt=json.                                                               *)
(***************************************************************************)
C30_PathParamsLeaveQuery ==
    call # "getApkDetails" /\ url # NoUrl =>
        LET query == url.query
            Has(name, value) ==
                Cardinality({i \in DOMAIN query : query[i] = <<name, value>>}) = 1
            Named(name) == {i \in DOMAIN query : query[i][1] = name}
            optional ==
                IF call = "create" /\ _request_id.some THEN 1
                ELSE IF call = "catalogGet" /\ _project_id.some THEN 1
                ELSE 0
        IN  /\ url.location = _base_url \o
                  (CASE call = "cancel" ->
                          "v1/projects/" \o project_id_arg \o "/testMatrices/"
                          \o test_matrix_id_arg \o ":cancel"
                     [] call = "create" ->
                          "v1/projects/" \o project_id_arg \o "/testMatrices"
                     [] call = "get" ->
                          "v1/projects/" \o project_id_arg \o "/testMatrices/"
                          \o test_matrix_id_arg
                     [] call = "catalogGet" ->
                          "v1/testEnvironmentCatalog/" \o environment_type_arg)
            /\ call \in {"cancel", "get"} =>
                  Named("projectId") = {} /\ Named("testMatrixId") = {}
            /\ call = "create" => Named("projectId") = {}
            /\ call = "catalogGet" => Named("environmentType") = {}
            /\ call = "create" /\ _request_id.some => Has("requestId", _request_id.v)
            /\ call = "catalogGet" /\ _project_id.some => Has("projectId", _project_id.v)
            /\ \A n \in DOMAIN _additional_params : Has(n, _additional_params[n])
            /\ Has("alt", "json")
            /\ Len(query) = optional + Cardinality(DOMAIN _additional_params) + 1
            /\ sent # NoRequest => sent.uri = into_string(url)

C30_Witness ==
    /\ call = "cancel" /\ pc = "send"
    /\ DOMAIN _additional_params = {"requestId"}
    /\ sent.uri = DefaultBaseUrl \o "v1/projects/my-project/testMatrices/matrix-1:cancel"
                  \o "?requestId=x&alt=json"

C30_WitnessCatalog ==
    /\ call = "catalogGet" /\ pc = "send"
    /\ _project_id = Some("x") /\ DOMAIN _additional_params = {"fields"}
    /\ sent.uri = DefaultBaseUrl \o "v1/testEnvironmentCatalog/ANDROID"
                  \o "?projectId=x&fields=x&alt=json"

====
